---- MODULE Spec2Model ----
(***************************************************************************)
(* Model of src/analysis/analyze-tense-usage.py: extraction of the future  *)
(* tense forms, per-file counting of tracked forms, the parallel driver    *)
(* and the two aggregations (per session, per verb form).                  *)
(*                                                                         *)
(* A string is a sequence of one-character strings: "am" is <<"a","m">>.   *)
(***************************************************************************)
EXTENDS Integers, Sequences, FiniteSets, TLC

VARIABLES
    pc,          \* the position of the running process
    c_text,      \* SpecCount: the text str.count is called on
    c_form,      \* SpecCount: the tracked form searched for
    c_count,     \* SpecCount: the value of text.count(form) once called
    f_cell,      \* SpecForms: one cell of the Viitor column
    f_form,      \* SpecForms: the form get_future_forms returns for the cell
    u_forms,     \* SpecFile: the tracked forms
    u_file,      \* SpecFile: the session file
    u_usage,     \* SpecFile: what get_usage_statistics returns
    u_formstats, \* SpecFile: what get_form_statistics returns
    mode,         \* Spec: the subcommand, "per-session" or "per-form" (args.func)
    df,           \* Spec: the Viitor column of the verb forms file
    dir,          \* Spec: the *.xml files of the corpus directory, in glob order
    future_forms, \* Spec: the tracked forms
    job,          \* Spec: the state of the job of each enumerated file
    res,          \* Spec: what each finished job returned
    data,         \* Spec: the list Parallel returned
    global_stats, \* Spec: date -> the speaker mapping of that date
    speakers,     \* Spec: the set of speakers
    dates,        \* Spec: the set of dates
    result,       \* Spec: the rows of the table
    output        \* Spec: the tables written to the statistics file, in order

countVars == <<c_text, c_form, c_count>>
formVars == <<f_cell, f_form>>
fileVars == <<u_forms, u_file, u_usage, u_formstats>>
inputVars == <<mode, df, dir>>
aggVars == <<global_stats, speakers, dates, result>>
driverVars == <<inputVars, future_forms, job, res, data, aggVars, output>>
vars == <<pc, countVars, formVars, fileVars, driverVars>>

NoFile == [setting |-> << >>, utts |-> << >>]
NotCalled == [ok |-> FALSE, error |-> "NotCalled"]
FileIdle ==
    /\ u_forms = << >> /\ u_file = NoFile
    /\ u_usage = NotCalled /\ u_formstats = NotCalled

CountIdle == c_text = << >> /\ c_form = << >> /\ c_count = 0

FormsIdle == f_cell = << >> /\ f_form = << >>

DriverBlank ==
    /\ future_forms = << >> /\ job = << >> /\ res = << >> /\ data = << >>
    /\ global_stats = << >> /\ speakers = {} /\ dates = {}
    /\ result = << >> /\ output = << >>

DriverIdle == mode = "none" /\ df = << >> /\ dir = << >> /\ DriverBlank

\* An optional value is a sequence of length at most one: None or Some(v).
None == << >>
Some(v) == <<v>>

(***************************************************************************)
(* Bounds of the inputs.                                                    *)
(***************************************************************************)
MaxTextLen == 4
MaxFormLen == 3

Letters == {"a", "m"}

\* String literals.
s_empty == << >>
s_a == <<"a">>
s_m == <<"m">>
s_aa == <<"a", "a">>
s_am == <<"a", "m">>
s_aaa == <<"a", "a", "a">>
s_ama == <<"a", "m", "a">>
s_mama == <<"m", "a", "m", "a">>

RECURSIVE SeqsUpTo(_, _)
SeqsUpTo(alphabet, n) ==
    IF n = 0 THEN {<< >>}
    ELSE LET shorter == SeqsUpTo(alphabet, n - 1)
         IN  shorter \cup {Append(s, ch) : s \in {t \in shorter : Len(t) = n - 1}, ch \in alphabet}

(***************************************************************************)
(* str.count(sub): the number of non-overlapping occurrences of sub in     *)
(* text, scanning from the left; after a match the scan resumes behind it. *)
(* The empty string occurs between all characters: len(text) + 1 times.    *)
(***************************************************************************)
RECURSIVE CountFromOverlapping(_, _, _)
CountFromOverlapping(text, f, i) ==
    IF Len(f) = 0 THEN Len(text) + 2 - i
    ELSE IF i + Len(f) - 1 > Len(text) THEN 0
    ELSE IF SubSeq(text, i, i + Len(f) - 1) = f
         THEN 1 + CountFromOverlapping(text, f, i + 1)
         ELSE CountFromOverlapping(text, f, i + 1)

RECURSIVE CountFrom(_, _, _)
CountFrom(text, f, i) ==
    IF Len(f) = 0 THEN Len(text) + 2 - i
    ELSE IF i + Len(f) - 1 > Len(text) THEN 0
    ELSE IF SubSeq(text, i, i + Len(f) - 1) = f
         THEN 1 + CountFrom(text, f, i + Len(f))
         ELSE CountFrom(text, f, i + 1)

StrCountOverlapping(text, f) == CountFromOverlapping(text, f, 1)

StrCount(text, f) == CountFrom(text, f, 1)

(***************************************************************************)
(* SpecCount: one call of text.count(form) on bounded inputs.              *)
(***************************************************************************)
InitCount ==
    /\ c_text \in SeqsUpTo(Letters, MaxTextLen)
    /\ c_form \in SeqsUpTo(Letters, MaxFormLen)
    /\ c_count = 0
    /\ pc = "count"
    /\ FormsIdle /\ FileIdle /\ DriverIdle

CallCount ==
    /\ pc = "count"
    /\ c_count' = StrCount(c_text, c_form)
    /\ pc' = "counted"
    /\ UNCHANGED <<c_text, c_form, formVars, fileVars, driverVars>>

NextCount == CallCount

SpecCount == InitCount /\ [][NextCount]_vars

(***************************************************************************)
(* get_future_forms: re.sub(r"^\s*(eu|tu|el\/ea|noi|voi|ei\/ele)\s", '',   *)
(* x, 0, IGNORECASE | MULTILINE) followed by x.strip().                    *)
(***************************************************************************)
MaxCellLen == 7

NL == "\n"
Whitespace == {" ", NL}
CellChars == {"e", "U", " ", NL}

PRONOUNS ==
    << <<"e", "u">>, <<"t", "u">>, <<"e", "l", "/", "e", "a">>, <<"n", "o", "i">>,
       <<"v", "o", "i">>, <<"e", "i", "/", "e", "l", "e">> >>

\* re.IGNORECASE compares characters by their lower case.
Lower(ch) == CASE ch = "E" -> "e" [] ch = "U" -> "u" [] ch = "T" -> "t" [] OTHER -> ch

SameCharExact(a, b) == a = b

SameChar(a, b) == Lower(a) = Lower(b)

\* The pronoun p stands in x at position j.
PronounAt(x, j, p) ==
    /\ j + Len(p) - 1 <= Len(x)
    /\ \A k \in 1..Len(p) : SameChar(x[j + k - 1], p[k])

\* re.MULTILINE: ^ matches at the start of the string and behind each newline.
LineStart(x, i) == i = 1 \/ (i - 1 <= Len(x) /\ x[i - 1] = NL)

\* \s* is greedy: the first position at or behind i that holds no whitespace.
RECURSIVE SkipWhitespace(_, _)
SkipWhitespace(x, i) ==
    IF i <= Len(x) /\ x[i] \in Whitespace THEN SkipWhitespace(x, i + 1) ELSE i

\* The alternatives of the group are tried in the order of the pattern.
FirstPronounAt(x, j) ==
    LET hits == {n \in 1..Len(PRONOUNS) :
                    /\ PronounAt(x, j, PRONOUNS[n])
                    /\ j + Len(PRONOUNS[n]) <= Len(x)
                    /\ x[j + Len(PRONOUNS[n])] \in Whitespace}
    IN  IF hits = {} THEN 0 ELSE CHOOSE n \in hits : \A k \in hits : n <= k

\* The position behind the match of the pattern that starts at i, 0 if the
\* pattern does not match at i: the match ends with ONE whitespace character.
MatchEndAll(x, i) ==
    IF ~LineStart(x, i) THEN 0
    ELSE LET j == SkipWhitespace(x, i)
             n == FirstPronounAt(x, j)
         IN  IF n = 0 THEN 0 ELSE SkipWhitespace(x, j + Len(PRONOUNS[n]))

MatchEnd(x, i) ==
    IF ~LineStart(x, i) THEN 0
    ELSE LET j == SkipWhitespace(x, i)
             n == FirstPronounAt(x, j)
         IN  IF n = 0 THEN 0 ELSE j + Len(PRONOUNS[n]) + 1

\* re.sub with count 0: every non-overlapping match, leftmost first, is
\* replaced by ''; the scan resumes behind a match.
RECURSIVE SubFrom(_, _)
SubFrom(x, i) ==
    IF i > Len(x) THEN << >>
    ELSE LET e == MatchEnd(x, i)
         IN  IF e = 0 THEN <<x[i]>> \o SubFrom(x, i + 1) ELSE SubFrom(x, e)

re_sub(x) == SubFrom(x, 1)

\* str.strip(): leading and trailing whitespace removed.
RECURSIVE strip(_)
strip(x) ==
    IF x = << >> THEN x
    ELSE IF Head(x) \in Whitespace THEN strip(Tail(x))
    ELSE IF x[Len(x)] \in Whitespace THEN strip(SubSeq(x, 1, Len(x) - 1))
    ELSE x

future_form(x) == strip(re_sub(x))

\* get_future_forms: one form per cell of the Viitor column, in order.
get_future_forms(frame) == [n \in 1..Len(frame) |-> future_form(frame[n])]

(***************************************************************************)
(* SpecForms: get_future_forms on one bounded cell.                        *)
(***************************************************************************)
InitForms ==
    /\ f_cell \in SeqsUpTo(CellChars, MaxCellLen)
    /\ f_form = << >>
    /\ pc = "forms"
    /\ CountIdle /\ FileIdle /\ DriverIdle

CallFutureForms ==
    /\ pc = "forms"
    /\ f_form' = get_future_forms(<<f_cell>>)[1]
    /\ pc' = "formed"
    /\ UNCHANGED <<countVars, f_cell, fileVars, driverVars>>

NextForms == CallFutureForms

SpecForms == InitForms /\ [][NextForms]_vars

\* The cell without the characters at the positions in R.
RECURSIVE Without(_, _, _)
Without(x, R, i) ==
    IF i > Len(x) THEN << >>
    ELSE IF i \in R THEN Without(x, R, i + 1) ELSE <<x[i]>> \o Without(x, R, i + 1)

LineStarts(x) == {i \in 1..Len(x) : LineStart(x, i)}

\* The lines that start, after optional whitespace, with a pronoun that a
\* whitespace character follows: the position of the pronoun and its length.
\* The optional whitespace may hold blank lines.
PronounLines(x) ==
    {<<s, j, Len(p)>> : s \in LineStarts(x), j \in 1..Len(x), p \in {PRONOUNS[n] : n \in 1..Len(PRONOUNS)}}

IsPronounLine(x, t) ==
    /\ t[1] <= t[2]
    /\ \A k \in t[1]..(t[2] - 1) : x[k] \in Whitespace
    /\ \E n \in 1..Len(PRONOUNS) : Len(PRONOUNS[n]) = t[3] /\ PronounAt(x, t[2], PRONOUNS[n])
    /\ t[2] + t[3] <= Len(x)
    /\ x[t[2] + t[3]] \in Whitespace

\* Manual removal, by hand on every such line: the leading whitespace, the
\* pronoun and the next `after` whitespace characters behind the pronoun
\* (all of them when after = 0).
ManualRemoved(x, after) ==
    {i \in 1..Len(x) :
        \E t \in PronounLines(x) :
            /\ IsPronounLine(x, t)
            /\ t[1] <= i
            /\ \/ i < t[2] + t[3] + after
               \/ /\ after = 0
                  /\ i >= t[2] + t[3]
                  /\ \A k \in (t[2] + t[3])..i : x[k] \in Whitespace}

Manual(x, after) == strip(Without(x, ManualRemoved(x, after), 1))

\* C9 (as amended): for every cell, get_future_forms returns what manual
\* removal gives that takes away, on every line that starts (after optional
\* whitespace, blank lines included) with a pronoun marker followed by
\* whitespace, the leading whitespace, the pronoun token (case-insensitively)
\* and exactly ONE whitespace character behind it, and then trims the cell.
C9_StripOneWhitespace ==
    pc = "formed" => f_form = Manual(f_cell, 1)

\* C9 witness: a two-line cell whose second line holds a pronoun in mixed
\* case followed by two blanks; the form keeps the second blank.
C9_Witness ==
    /\ pc = "formed"
    /\ f_cell = <<"e", NL, "e", "U", " ", " ", "e">>
    /\ f_form = <<"e", NL, " ", "e">>

\* C9 (as stated): the pronoun token and the whitespace behind it, any
\* amount of it, are removed from every such line.
C9_Original ==
    pc = "formed" => f_form = Manual(f_cell, 0)


\* The start positions at which form occurs in text.
MatchPositions(text, f) ==
    {i \in 1..(Len(text) + 1) : i + Len(f) - 1 <= Len(text) /\ SubSeq(text, i, i + Len(f) - 1) = f}

\* Sets of occurrences no two of which share a character.
Disjoint(P, f) == \A i, j \in P : i # j => (i + Len(f) <= j \/ j + Len(f) <= i)

MaxDisjointMatches(text, f) ==
    LET sizes == {Cardinality(P) : P \in {Q \in SUBSET MatchPositions(text, f) : Disjoint(Q, f)}}
    IN  CHOOSE n \in sizes : \A k \in sizes : k <= n

\* C5 (as amended): text.count(form) is the largest number of pairwise
\* non-overlapping occurrences of form in text (what the left-to-right scan
\* finds); "ama" in "mama" counts 1, "aa" in "aaa" counts 1, and "a" in "aaa"
\* counts 3, one for each of its three non-overlapping occurrences.
C5_CountNonOverlapping ==
    pc = "counted" =>
        /\ c_count = MaxDisjointMatches(c_text, c_form)
        /\ (c_text = s_mama /\ c_form = s_ama => c_count = 1)
        /\ (c_text = s_aaa /\ c_form = s_aa => c_count = 1)
        /\ (c_text = s_aaa /\ c_form = s_a => c_count = 3)

\* C5 witness: the count of "aa" in "aaa" has been taken; the two occurrences
\* overlap and only one is counted.
C5_Witness ==
    /\ pc = "counted" /\ c_text = s_aaa /\ c_form = s_aa /\ c_count = 1
    /\ Cardinality(MatchPositions(c_text, c_form)) = 2

\* C5 (as stated): non-overlapping left-to-right counting, with "ama" in
\* "mama" counting 1 and "a" in "aaa" counting 1.
C5_Original ==
    pc = "counted" =>
        /\ c_count = MaxDisjointMatches(c_text, c_form)
        /\ (c_text = s_mama /\ c_form = s_ama => c_count = 1)
        /\ (c_text = s_aaa /\ c_form = s_a => c_count = 1)

(***************************************************************************)
(* A session file. setting holds the `when` attributes of the date         *)
(* elements whose parent is a setting element, in document order; utts     *)
(* holds the u elements in document order, each with its `who` attribute   *)
(* attribute, its own text and its descendant elements, each with its text *)
(* and its tail.                                                           *)
(***************************************************************************)
Elem(text, tail) == [text |-> text, tail |-> tail]
Utt(who, text, children) == [who |-> who, text |-> text, children |-> children]
SessionFile(setting, utts) == [setting |-> setting, utts |-> utts]

\* get_xml_root without the loop that drops the tails.
get_xml_root_tails(file) == file

\* get_xml_root: the tree is parsed and the tail of every element is dropped.
get_xml_root(file) ==
    [setting |-> file.setting,
     utts |-> [n \in 1..Len(file.utts) |->
                 Utt(file.utts[n].who, file.utts[n].text,
                     [k \in 1..Len(file.utts[n].children) |->
                         Elem(file.utts[n].children[k].text, s_empty)])]]

\* datetime.strptime(when, '%Y-%m-%d').date(): the strings it accepts and the
\* date each gives; any other string raises ValueError.
\* %m and %d accept a single digit, so "2000-1-2" is the date of "2000-01-02".
ParsedDates ==
    [w \in {"2000-01-01", "2000-01-02", "2000-1-2"} |->
        IF w = "2000-01-01" THEN <<2000, 1, 1>> ELSE <<2000, 1, 2>>]

Raised(error) == [ok |-> FALSE, error |-> error]

\* get_session_date: the first date element under a setting element is
\* unpacked (ValueError when there is none) and its `when` is parsed.
get_session_date(xml) ==
    IF Len(xml.setting) = 0 THEN Raised("ValueError")
    ELSE IF xml.setting[1] \notin DOMAIN ParsedDates THEN Raised("ValueError")
    ELSE [ok |-> TRUE, date |-> ParsedDates[xml.setting[1]]]

\* ''.join(u.itertext()): the text of u, then the text and the tail of each
\* of its descendants, in document order.
RECURSIVE JoinChildren(_)
JoinChildren(children) ==
    IF children = << >> THEN s_empty
    ELSE Head(children).text \o Head(children).tail \o JoinChildren(Tail(children))

itertext_join(u) == u.text \o JoinChildren(u.children)

\* sum([text.count(form) for form in forms])
RECURSIVE SumCounts(_, _)
SumCounts(text, forms) ==
    IF forms = << >> THEN 0
    ELSE StrCount(text, Head(forms)) + SumCounts(text, Tail(forms))

\* The loop of get_usage_statistics over the u elements: stats maps each
\* speaker seen so far to the running total.
RECURSIVE UsageLoop(_, _, _)
UsageLoop(forms, utts, stats) ==
    IF utts = << >> THEN stats
    ELSE LET speaker == Head(utts).who
             text == itertext_join(Head(utts))
             acc == (IF speaker \in DOMAIN stats THEN stats[speaker] ELSE 0)
                        + SumCounts(text, forms)
         IN  UsageLoop(forms, Tail(utts),
                 [s \in DOMAIN stats \cup {speaker} |-> IF s = speaker THEN acc ELSE stats[s]])

EmptyDict == [s \in {} |-> 0]

get_usage_statistics(forms, file) ==
    LET xml == get_xml_root(file)
        date == get_session_date(xml)
    IN  IF ~date.ok THEN date
        ELSE [ok |-> TRUE, date |-> date.date, stats |-> UsageLoop(forms, xml.utts, EmptyDict)]

\* A dict with tuple keys keeps its items in insertion order: a sequence of
\* items [key, value]; assigning to a key it holds keeps the item's place.
DictHas(d, key) == \E n \in 1..Len(d) : d[n].key = key

DictGet(d, key) == d[CHOOSE n \in 1..Len(d) : d[n].key = key].value

\* An assignment that always adds an item.
DictSetAppend(d, key, value) == Append(d, [key |-> key, value |-> value])

DictSet(d, key, value) ==
    IF DictHas(d, key)
    THEN [n \in 1..Len(d) |-> IF d[n].key = key THEN [key |-> key, value |-> value] ELSE d[n]]
    ELSE Append(d, [key |-> key, value |-> value])

\* acc = text.count(f); if key in stats: acc = acc + stats[key]
AccumulateOverwrite(stats, key, count) == count

Accumulate(stats, key, count) ==
    IF DictHas(stats, key) THEN count + DictGet(stats, key) ELSE count

\* The inner loop of get_form_statistics over the forms, for one utterance.
RECURSIVE FormLoop(_, _, _, _, _)
FormLoop(speaker, date, text, forms, stats) ==
    IF forms = << >> THEN stats
    ELSE LET f == Head(forms)
             key == <<speaker, date, f>>
         IN  FormLoop(speaker, date, text, Tail(forms),
                 DictSet(stats, key, Accumulate(stats, key, StrCount(text, f))))

\* The outer loop of get_form_statistics over the u elements.
RECURSIVE UtteranceLoop(_, _, _, _)
UtteranceLoop(forms, date, utts, stats) ==
    IF utts = << >> THEN stats
    ELSE UtteranceLoop(forms, date, Tail(utts),
             FormLoop(Head(utts).who, date, itertext_join(Head(utts)), forms, stats))

\* {k: v for k, v in stats.items() if v > 0}
KeepAll(stats) == stats

KeepPositive(stats) == SelectSeq(stats, LAMBDA item : item.value > 0)

get_form_statistics(forms, file) ==
    LET xml == get_xml_root(file)
        date == get_session_date(xml)
    IN  IF ~date.ok THEN date
        ELSE [ok |-> TRUE,
              stats |-> KeepPositive(UtteranceLoop(forms, date.date, xml.utts, << >>))]

(***************************************************************************)
(* SpecFile: both collectors on one session file, for bounded lists of     *)
(* forms and of utterances.                                                *)
(***************************************************************************)
MaxForms == 2
MaxUtts == 2

Speakers == {"S1", "S2"}

FileForms == {s_empty, s_a, s_am}

\* The utterances of the session files: "a", "m", "am" held by two inline
\* elements, and "m" with an inline element whose tail is "a".
UttBodies ==
    { [text |-> s_a, children |-> << >>],
      [text |-> s_m, children |-> << >>],
      [text |-> s_empty, children |-> <<Elem(s_a, s_empty), Elem(s_m, s_empty)>>],
      [text |-> s_m, children |-> <<Elem(s_empty, s_a)>>] }

FileUtts == {Utt(who, b.text, b.children) : who \in Speakers, b \in UttBodies}

InitFile ==
    /\ u_forms \in SeqsUpTo(FileForms, MaxForms)
    /\ u_file \in {SessionFile(<<"2000-01-01">>, utts) : utts \in SeqsUpTo(FileUtts, MaxUtts)}
    /\ u_usage = NotCalled /\ u_formstats = NotCalled
    /\ pc = "file"
    /\ CountIdle /\ FormsIdle /\ DriverIdle

CallUsageStatistics ==
    /\ pc = "file"
    /\ u_usage' = get_usage_statistics(u_forms, u_file)
    /\ pc' = "usage"
    /\ UNCHANGED <<countVars, formVars, driverVars, u_forms, u_file, u_formstats>>

CallFormStatistics ==
    /\ pc = "usage"
    /\ u_formstats' = get_form_statistics(u_forms, u_file)
    /\ pc' = "collected"
    /\ UNCHANGED <<countVars, formVars, driverVars, u_forms, u_file, u_usage>>

NextFile == CallUsageStatistics \/ CallFormStatistics

SpecFile == InitFile /\ [][NextFile]_vars

(***************************************************************************)
(* Spec: one run of the tool, count_usage_per_session or                   *)
(* count_usage_per_verb_form, over a corpus directory.                     *)
(***************************************************************************)
MaxFiles == 2

\* What iterate_corpus_files reads of a path: whether it is the path of the
\* root file, and its suffixes.
RootPath == [root |-> TRUE, suffixes |-> <<".xml">>]
AnaPath == [root |-> FALSE, suffixes |-> <<".ana", ".xml">>]
SessionPath == [root |-> FALSE, suffixes |-> <<".xml">>]

DirEntry(path, file) == [path |-> path, file |-> file]

\* The utterances of the corpus files: S1 alone, S2 alone, both.
CorpusUtts ==
    { <<Utt("S1", s_a, << >>)>>,
      <<Utt("S2", s_m, << >>)>>,
      <<Utt("S1", s_a, << >>), Utt("S2", s_m, << >>), Utt("S1", s_empty, <<Elem(s_a, s_m)>>)>> }

\* Session files with a date, with a date written without leading zeros,
\* without a date element, with a malformed date.
CorpusFiles ==
    {SessionFile(<<w>>, utts) : w \in {"2000-01-01", "2000-01-02"}, utts \in CorpusUtts}
        \cup {SessionFile(<<"2000-1-2">>, <<Utt("S1", s_a, << >>)>>),
              SessionFile(<< >>, <<Utt("S1", s_a, << >>)>>),
              SessionFile(<<"01.02.2000">>, <<Utt("S2", s_m, << >>)>>)}

DirEntries ==
    {DirEntry(SessionPath, f) : f \in CorpusFiles}
        \cup {DirEntry(RootPath, NoFile), DirEntry(AnaPath, NoFile)}

\* The Viitor columns: "eU a" alone; "a" and "Tu a", which give "a" twice.
VerbTables ==
    { << <<"e", "U", " ", "a">> >>,
      << <<"a">>, <<"T", "u", " ", "a">> >> }

Init ==
    /\ mode \in {"per-session", "per-form"}
    /\ df \in VerbTables
    /\ dir \in SeqsUpTo(DirEntries, MaxFiles)
    /\ DriverBlank
    /\ pc = "start"
    /\ CountIdle /\ FormsIdle /\ FileIdle

\* iterate_corpus_files: the files of the directory in glob order, without
\* the root file and without the files with an .ana suffix.
iterate_corpus_files(entries) ==
    LET kept == SelectSeq(entries,
                    LAMBDA e : ~e.path.root
                               /\ \A k \in 1..Len(e.path.suffixes) : e.path.suffixes[k] # ".ana")
    IN  [n \in 1..Len(kept) |-> kept[n].file]

corpus == iterate_corpus_files(dir)

\* The collector the subcommand hands to Parallel.
Collect(forms, file) ==
    IF mode = "per-session" THEN get_usage_statistics(forms, file)
    ELSE get_form_statistics(forms, file)

\* pandas.read_csv, get_future_forms, and the jobs handed to Parallel: one
\* per enumerated file.
LoadForms ==
    /\ pc = "start"
    /\ future_forms' = get_future_forms(df)
    /\ job' = [n \in 1..Len(corpus) |-> "pending"]
    /\ res' = [n \in 1..Len(corpus) |-> NotCalled]
    /\ pc' = "parallel"
    /\ UNCHANGED <<countVars, formVars, fileVars, inputVars, data, aggVars, output>>

\* A worker takes a job. The size of the pool (n_jobs) only limits how many
\* jobs run at once; every such run is a run of this model.
JobStart(n) ==
    /\ pc = "parallel"
    /\ job[n] = "pending"
    /\ job' = [job EXCEPT ![n] = "running"]
    /\ UNCHANGED <<pc, countVars, formVars, fileVars, inputVars, future_forms, res, data,
                   aggVars, output>>

\* The job runs to its end in the worker: it returns its result or raises.
JobFinish(n) ==
    /\ job[n] = "running"
    /\ LET r == Collect(future_forms, corpus[n])
       IN  /\ job' = [job EXCEPT ![n] = IF r.ok THEN "done" ELSE "failed"]
           /\ res' = [res EXCEPT ![n] = IF r.ok THEN r ELSE @]
    /\ UNCHANGED <<pc, countVars, formVars, fileVars, inputVars, future_forms, data,
                   aggVars, output>>

\* Parallel returns when the result of every job is back.
JobsJoinedEarly == \A n \in DOMAIN job : job[n] \in {"done", "running"}

JobsJoinedSkipping == \A n \in DOMAIN job : job[n] \in {"done", "failed"}

JobsJoined == \A n \in DOMAIN job : job[n] = "done"

\* Parallel returns the results in the order of the jobs.
ParallelReturn ==
    /\ pc = "parallel"
    /\ JobsJoined
    /\ data' = SelectSeq(res, LAMBDA r : r.ok)
    /\ pc' = "aggregate"
    /\ UNCHANGED <<countVars, formVars, fileVars, inputVars, future_forms, job, res,
                   aggVars, output>>

\* Parallel raises the error of a job; nothing catches it.
ParallelRaise ==
    /\ pc = "parallel"
    /\ \E n \in DOMAIN job : job[n] = "failed"
    /\ pc' = "error"
    /\ UNCHANGED <<countVars, formVars, fileVars, driverVars>>

\* One round of the loop `for date, stats in data`.
SessionStepLastSpeakers(acc, item) ==
    [global_stats |-> [d \in DOMAIN acc.global_stats \cup {item.date} |->
                          IF d = item.date THEN item.stats ELSE acc.global_stats[d]],
     speakers |-> DOMAIN item.stats,
     dates |-> acc.dates \cup {item.date}]

\* The round with the mappings of one date merged, the counts added.
SessionStepMerge(acc, item) ==
    LET old == IF item.date \in DOMAIN acc.global_stats THEN acc.global_stats[item.date]
               ELSE EmptyDict
        merged == [sp \in DOMAIN old \cup DOMAIN item.stats |->
                      (IF sp \in DOMAIN old THEN old[sp] ELSE 0)
                          + (IF sp \in DOMAIN item.stats THEN item.stats[sp] ELSE 0)]
    IN  [global_stats |-> [d \in DOMAIN acc.global_stats \cup {item.date} |->
                              IF d = item.date THEN merged ELSE acc.global_stats[d]],
         speakers |-> acc.speakers \cup DOMAIN item.stats,
         dates |-> acc.dates \cup {item.date}]

SessionStep(acc, item) ==
    [global_stats |-> [d \in DOMAIN acc.global_stats \cup {item.date} |->
                          IF d = item.date THEN item.stats ELSE acc.global_stats[d]],
     speakers |-> acc.speakers \cup DOMAIN item.stats,
     dates |-> acc.dates \cup {item.date}]

RECURSIVE SessionLoop(_, _)
SessionLoop(items, acc) ==
    IF items = << >> THEN acc ELSE SessionLoop(Tail(items), SessionStep(acc, Head(items)))

NoStats == [global_stats |-> << >>, speakers |-> {}, dates |-> {}]

\* session_stats[speaker] if speaker in session_stats else None
UsageCountZero(session_stats, speaker) ==
    IF speaker \in DOMAIN session_stats THEN Some(session_stats[speaker]) ELSE Some(0)

UsageCountOf(session_stats, speaker) ==
    IF speaker \in DOMAIN session_stats THEN Some(session_stats[speaker]) ELSE None

\* The orders in which a set may be iterated.
Orderings(S) ==
    {o \in [1..Cardinality(S) -> S] : \A i, j \in 1..Cardinality(S) : o[i] = o[j] => i = j}

SessionRow(acc, speaker, date) ==
    [Speaker |-> speaker, Date |-> date,
     UsageCount |-> UsageCountOf(acc.global_stats[date], speaker)]

\* The loop over product(speakers, dates), the sets iterated in the orders so, do.
SessionRowsObserved(acc, so, do) ==
    SelectSeq([k \in 1..(Len(so) * Len(do)) |->
                  SessionRow(acc, so[((k - 1) \div Len(do)) + 1], do[((k - 1) % Len(do)) + 1])],
              LAMBDA row : row.UsageCount # None)

SessionRows(acc, so, do) ==
    [k \in 1..(Len(so) * Len(do)) |->
        SessionRow(acc, so[((k - 1) \div Len(do)) + 1], do[((k - 1) % Len(do)) + 1])]

\* count_usage_per_session, lines 193-211: the aggregation and the table.
AggregateSession ==
    /\ pc = "aggregate"
    /\ mode = "per-session"
    /\ LET acc == SessionLoop(data, NoStats)
       IN  /\ global_stats' = acc.global_stats
           /\ speakers' = acc.speakers
           /\ dates' = acc.dates
           /\ \E so \in Orderings(acc.speakers), do \in Orderings(acc.dates) :
                  result' = SessionRows(acc, so, do)
    /\ pc' = "write"
    /\ UNCHANGED <<countVars, formVars, fileVars, inputVars, future_forms, job, res, data,
                   output>>

\* The rows of one file's per-form result, in the order of its items.
FormRows(session_stats) ==
    [n \in 1..Len(session_stats) |->
        [Speaker |-> session_stats[n].key[1], Date |-> session_stats[n].key[2],
         Form |-> session_stats[n].key[3], Count |-> session_stats[n].value]]

RECURSIVE FlattenForms(_)
FlattenForms(items) ==
    IF items = << >> THEN << >>
    ELSE FormRows(Head(items).stats) \o FlattenForms(Tail(items))

\* count_usage_per_verb_form, lines 231-241: every item becomes a row.
AggregateForm ==
    /\ pc = "aggregate"
    /\ mode = "per-form"
    /\ result' = FlattenForms(data)
    /\ pc' = "write"
    /\ UNCHANGED <<countVars, formVars, fileVars, inputVars, future_forms, job, res, data,
                   global_stats, speakers, dates, output>>

\* df_stats.to_csv(output_file)
Write ==
    /\ pc = "write"
    /\ output' = Append(output, result)
    /\ pc' = "done"
    /\ UNCHANGED <<countVars, formVars, fileVars, inputVars, future_forms, job, res, data,
                   aggVars>>

Next ==
    \/ LoadForms
    \/ \E n \in DOMAIN job : JobStart(n)
    \/ \E n \in DOMAIN job : JobFinish(n)
    \/ ParallelReturn
    \/ ParallelRaise
    \/ AggregateSession
    \/ AggregateForm
    \/ Write

Spec == Init /\ [][Next]_vars

\* The sum of the values of a function with a finite domain.
RECURSIVE SumFn(_)
SumFn(fn) ==
    IF DOMAIN fn = {} THEN 0
    ELSE LET x == CHOOSE y \in DOMAIN fn : TRUE
         IN  fn[x] + SumFn([y \in DOMAIN fn \ {x} |-> fn[y]])

\* The text of one utterance: its own text and the texts of its descendants.
RECURSIVE ChildTexts(_)
ChildTexts(children) ==
    IF children = << >> THEN s_empty ELSE Head(children).text \o ChildTexts(Tail(children))

UttText(u) == u.text \o ChildTexts(u.children)

\* The utterances of a speaker in a file, by position.
TurnsOf(file, s) == {i \in 1..Len(file.utts) : file.utts[i].who = s}

\* The places of the forms list that hold the form f.
PlacesOf(forms, f) == {j \in 1..Len(forms) : forms[j] = f}

\* The occurrences of the listed places of forms, counted in each utterance
\* of the speaker on its own and added up.
PerUtteranceTotal(file, forms, s, places) ==
    SumFn([p \in TurnsOf(file, s) \X places |-> StrCount(UttText(file.utts[p[1]]), forms[p[2]])])

\* The texts of all the utterances of a speaker, concatenated in file order.
RECURSIVE SpeakerText(_, _)
SpeakerText(utts, s) ==
    IF utts = << >> THEN s_empty
    ELSE (IF Head(utts).who = s THEN UttText(Head(utts)) ELSE s_empty) \o SpeakerText(Tail(utts), s)

\* The occurrences of the listed places of forms, counted in the
\* concatenation of the speaker's utterances.
ConcatenatedTotal(file, forms, s, places) ==
    SumFn([j \in places |-> StrCount(SpeakerText(file.utts, s), forms[j])])

FileDate == ParsedDates[u_file.setting[1]]

\* The values the per-form result holds under a key.
FormEntries(key) ==
    {n \in 1..Len(u_formstats.stats) : u_formstats.stats[n].key = key}

\* Both results agree with the totals Total(s, places) gives.
ResultsAre(Total(_, _)) ==
    /\ DOMAIN u_usage.stats = {s \in Speakers : TurnsOf(u_file, s) # {}}
    /\ \A s \in DOMAIN u_usage.stats : u_usage.stats[s] = Total(s, 1..Len(u_forms))
    /\ \A n \in 1..Len(u_formstats.stats) :
           \E s \in Speakers, f \in FileForms :
               u_formstats.stats[n].key = <<s, FileDate, f>>
    /\ \A s \in Speakers, f \in FileForms :
           LET total == IF TurnsOf(u_file, s) = {} THEN 0 ELSE Total(s, PlacesOf(u_forms, f))
               held == FormEntries(<<s, FileDate, f>>)
           IN  IF total = 0 THEN held = {}
               ELSE /\ Cardinality(held) = 1
                    /\ \A n \in held : u_formstats.stats[n].value = total

PerUtterance(s, places) == PerUtteranceTotal(u_file, u_forms, s, places)

Concatenated(s, places) == ConcatenatedTotal(u_file, u_forms, s, places)

(***************************************************************************)
(* Claims about the run (Spec).                                            *)
(***************************************************************************)
Aggregated == pc \in {"write", "done"}

RowSet(rows) == {rows[k] : k \in DOMAIN rows}

D1 == ParsedDates["2000-01-01"]
D2 == ParsedDates["2000-01-02"]

\* The speakers of all partial mappings and the dates of all partial results.
AllSpeakers == UNION {DOMAIN data[n].stats : n \in DOMAIN data}

AllDates == {data[n].date : n \in DOMAIN data}

RowsOf(rows, s, d) == {k \in DOMAIN rows : rows[k].Speaker = s /\ rows[k].Date = d}

\* C1: per-session aggregation emits exactly one row for every pair of S x D
\* and no other row, |S| * |D| rows in all, S the speakers of all partial
\* mappings and D the dates of all partial results.
C1_OneRowPerPair ==
    (Aggregated /\ mode = "per-session") =>
        /\ Len(result) = Cardinality(AllSpeakers) * Cardinality(AllDates)
        /\ \A k \in DOMAIN result :
               result[k].Speaker \in AllSpeakers /\ result[k].Date \in AllDates
        /\ \A s \in AllSpeakers, d \in AllDates : Cardinality(RowsOf(result, s, d)) = 1
        /\ (pc = "done" => output = <<result>>)

\* C1 witness: S1 speaks only on D1 and S2 only on D2; four rows are written,
\* (S1, D2) and (S2, D1) among them.
C1_Witness ==
    /\ pc = "done" /\ mode = "per-session"
    /\ Len(data) = 2
    /\ data[1].date = D1 /\ DOMAIN data[1].stats = {"S1"}
    /\ data[2].date = D2 /\ DOMAIN data[2].stats = {"S2"}
    /\ Len(output[1]) = 4
    /\ \E k \in 1..4 : output[1][k].Speaker = "S1" /\ output[1][k].Date = D2
    /\ \E k \in 1..4 : output[1][k].Speaker = "S2" /\ output[1][k].Date = D1

DateOf(file) == get_session_date(file).date

\* The enumerated files that carry the date d, by position.
FilesOf(d) == {n \in 1..Len(corpus) : DateOf(corpus[n]) = d}

LastOf(d) == CHOOSE n \in FilesOf(d) : \A k \in FilesOf(d) : k <= n

AllPlaces == 1..Len(future_forms)

\* C2 (as amended): in per-session output the UsageCount of row (speaker,
\* date) is missing if and only if the speaker has no utterance in the file
\* of that date whose result is the last of that date in the driver's result
\* list; a speaker with an utterance in that file has its count there, 0 when
\* nothing matched, never missing.
C2_MissingIffAbsent ==
    (Aggregated /\ mode = "per-session") =>
        \A k \in DOMAIN result :
            LET file == corpus[LastOf(result[k].Date)]
                s == result[k].Speaker
            IN  /\ result[k].UsageCount = None <=> TurnsOf(file, s) = {}
                /\ TurnsOf(file, s) # {} =>
                       result[k].UsageCount =
                           Some(PerUtteranceTotal(file, future_forms, s, AllPlaces))

\* C2 witness: S2 speaks on D1 without a match and not on D2: its count is 0
\* on D1 and missing on D2.
C2_Witness ==
    /\ pc = "done" /\ mode = "per-session"
    /\ \E k \in DOMAIN result :
           /\ result[k].Speaker = "S2" /\ result[k].Date = D1
           /\ result[k].UsageCount = Some(0)
           /\ TurnsOf(corpus[LastOf(D1)], "S2") # {}
    /\ \E k \in DOMAIN result :
           /\ result[k].Speaker = "S2" /\ result[k].Date = D2
           /\ result[k].UsageCount = None

\* C2 (as stated): UsageCount is missing if and only if the speaker has no
\* utterance in the session file of that date, whichever file of the corpus
\* carries that date.
C2_Original ==
    (Aggregated /\ mode = "per-session") =>
        \A k \in DOMAIN result :
            result[k].UsageCount = None
                <=> \A n \in FilesOf(result[k].Date) : TurnsOf(corpus[n], result[k].Speaker) = {}

\* C3: per-form mode holds no Count of 0: every entry a job returns and every
\* row of the table has Count >= 1, and a (speaker, date, form) whose count
\* over the speaker's utterances is zero in a file has no entry in that
\* file's result, and no row when it is zero in every file of that date.
C3_NoZeroCount ==
    mode = "per-form" =>
        /\ \A n \in DOMAIN res : res[n].ok =>
               /\ \A k \in DOMAIN res[n].stats : res[n].stats[k].value >= 1
               /\ \A s \in Speakers, j \in AllPlaces :
                      PerUtteranceTotal(corpus[n], future_forms, s, PlacesOf(future_forms, future_forms[j])) = 0
                          => ~DictHas(res[n].stats, <<s, DateOf(corpus[n]), future_forms[j]>>)
        /\ \A k \in DOMAIN result : result[k].Count >= 1
        /\ \A w \in DOMAIN output : \A k \in DOMAIN output[w] : output[w][k].Count >= 1
        /\ Aggregated =>
               \A s \in Speakers, j \in AllPlaces, d \in {D1, D2} :
                   (\A n \in FilesOf(d) :
                        PerUtteranceTotal(corpus[n], future_forms, s, PlacesOf(future_forms, future_forms[j])) = 0)
                       => ~\E k \in DOMAIN result :
                              /\ result[k].Speaker = s /\ result[k].Date = d
                              /\ result[k].Form = future_forms[j]

\* C3 witness: S1 and S2 speak in a file, S2 without a match; the written
\* table has rows, none of them of S2.
C3_Witness ==
    /\ pc = "done" /\ mode = "per-form"
    /\ \E n \in DOMAIN corpus : TurnsOf(corpus[n], "S1") # {} /\ TurnsOf(corpus[n], "S2") # {}
    /\ Len(output[1]) >= 1
    /\ \A k \in DOMAIN output[1] : output[1][k].Speaker = "S1"

\* The list of results in another order.
Reordered(o) == [n \in 1..Len(data) |-> data[o[n]]]

\* The rows per-session aggregation builds from a list of results.
RowsFrom(items) ==
    LET acc == SessionLoop(items, NoStats)
        so == CHOOSE o \in Orderings(acc.speakers) : TRUE
        do == CHOOSE o \in Orderings(acc.dates) : TRUE
    IN  RowSet(SessionRows(acc, so, do))

OrderIndependent ==
    \A o \in Orderings(1..Len(data)) : RowsFrom(Reordered(o)) = RowSet(result)

DistinctDates == \A m, n \in DOMAIN data : data[m].date = data[n].date => m = n

\* C6 (as amended): when no two session files carry the same date, the set
\* of (Speaker, Date, UsageCount) rows of count_usage_per_session is the same
\* for every order in which the driver may return the partial results.
C6_OrderIndependent ==
    (Aggregated /\ mode = "per-session" /\ DistinctDates) => OrderIndependent

\* C6 witness: two files of different dates and different speakers have been
\* aggregated; the other order gives the same rows.
C6_Witness ==
    /\ pc = "done" /\ mode = "per-session"
    /\ Len(data) = 2 /\ data[1].date # data[2].date
    /\ DOMAIN data[1].stats # DOMAIN data[2].stats
    /\ RowsFrom(<<data[2], data[1]>>) = RowSet(output[1])

\* C6 (as stated): for every set of session files the rows are the same for
\* every order of the partial results.
C6_Original ==
    (Aggregated /\ mode = "per-session") => OrderIndependent

AllJobsDone == \A n \in DOMAIN job : job[n] = "done"

\* What holds of the output file in every state of a run.
WrittenOnceJoined ==
    /\ Len(output) <= 1
    /\ pc = "done" => Len(output) = 1
    /\ Len(output) = 1 =>
           /\ pc = "done"
           /\ AllJobsDone
           /\ Len(data) = Len(corpus) /\ Len(job) = Len(corpus)
           /\ \A n \in DOMAIN data : data[n] = res[n]

\* The only step that changes the output file: the driver's to_csv, taken
\* with an empty file, every job done, and no job touched by the step.
WriteStep ==
    output' # output =>
        /\ pc = "write" /\ pc' = "done"
        /\ output = << >> /\ output' = <<result>>
        /\ AllJobsDone /\ job' = job /\ res' = res

\* C7: the output file is written at most once, exactly once in a run that
\* completes, by the driver alone, and only once every job has completed and
\* its result is in the list Parallel returned: no worker step writes and
\* there is no write while any job is pending or running.
C7_WrittenOnceAfterJoin == [](WrittenOnceJoined) /\ [][WriteStep]_vars

\* C7 witness: two jobs have completed and the table has been written once.
C7_Witness ==
    /\ pc = "done" /\ Len(job) = 2 /\ AllJobsDone /\ Len(output) = 1

\* The files of the corpus whose job fails.
Malformed(n) == ~get_session_date(corpus[n]).ok

\* C8: when the job of a session file fails (no date element under setting,
\* or a `when` that is not a date), the run ends with that error: the driver
\* cannot return from Parallel, it can only raise; nothing is aggregated and
\* no output file is written. A corpus with such a file never gets past
\* Parallel.
C8_FailureAborts ==
    /\ (\E n \in DOMAIN job : job[n] = "failed") =>
           /\ pc \in {"parallel", "error"}
           /\ pc = "parallel" => (ENABLED ParallelRaise /\ ~ENABLED ParallelReturn)
           /\ data = << >> /\ result = << >> /\ output = << >>
           /\ speakers = {} /\ dates = {} /\ DOMAIN global_stats = {}
    /\ (\E n \in DOMAIN corpus : Malformed(n)) => pc \in {"start", "parallel", "error"}
    /\ \A n \in DOMAIN job : job[n] = "failed" <=> (Malformed(n) /\ ~res[n].ok /\ job[n] \notin {"pending", "running"})

\* C8 witness: the run has ended with the error of one job while the job of
\* another file had completed; nothing was written.
C8_Witness ==
    /\ pc = "error"
    /\ \E m, n \in DOMAIN job : job[m] = "failed" /\ job[n] = "done"
    /\ output = << >>

\* C4 (as amended): the count recorded for a speaker (per-session mode) or
\* for a (speaker, date, form) key (per-form mode) is the number of matches
\* counted in each of the speaker's utterance texts on its own, added up over
\* the speaker's utterances in the file (and over the places of the forms
\* list); a match that spans two utterances is not counted.
C4_CountPerUtterance ==
    pc = "collected" => ResultsAre(PerUtterance)

\* C4 witness: S1 says "a" and then "m", "am" is tracked: the concatenation
\* holds a match, the recorded count is 0 and per-form mode has no entry.
C4_Witness ==
    /\ pc = "collected"
    /\ u_forms = <<s_am>>
    /\ u_file.utts = <<Utt("S1", s_a, << >>), Utt("S1", s_m, << >>)>>
    /\ u_usage.stats["S1"] = 0
    /\ u_formstats.stats = << >>
    /\ Concatenated("S1", {1}) = 1

\* C4 (as stated): the count is the number of matches in the concatenation of
\* all of the speaker's utterance texts in the file (stated here for lists of
\* non-empty forms only).
C4_Original ==
    (pc = "collected" /\ \A j \in 1..Len(u_forms) : u_forms[j] # s_empty)
        => ResultsAre(Concatenated)

\* The sum of the Count values per-form mode holds for a speaker.
FormSum(s) ==
    SumFn([n \in {k \in 1..Len(u_formstats.stats) :
                     /\ u_formstats.stats[k].key[1] = s
                     /\ u_formstats.stats[k].key[2] = FileDate}
              |-> u_formstats.stats[n].value])

\* C10: for every speaker with an utterance in the file, the Count values of
\* the per-form entries of that speaker and date add up to the per-session
\* total of the speaker, whatever the forms list (duplicates, empty strings).
C10_CrossModeTotals ==
    pc = "collected" =>
        \A s \in Speakers :
            TurnsOf(u_file, s) # {} =>
                /\ s \in DOMAIN u_usage.stats
                /\ FormSum(s) = u_usage.stats[s]

\* C10 witness: a form is tracked twice; S1 has an utterance that holds it, S2
\* has an utterance without a match, whose zero entry per-form mode drops.
C10_Witness ==
    /\ pc = "collected"
    /\ u_forms = <<s_a, s_a>>
    /\ u_file.utts = <<Utt("S1", s_a, << >>), Utt("S2", s_m, << >>)>>
    /\ u_usage.stats["S1"] = 2 /\ FormSum("S1") = 2
    /\ u_usage.stats["S2"] = 0 /\ FormSum("S2") = 0
    /\ Len(u_formstats.stats) = 1

\* The results of the date d in the list Parallel returned, by position.
ResultsOf(d) == {n \in DOMAIN data : data[n].date = d}

LastResultOf(d) == CHOOSE n \in ResultsOf(d) : \A k \in ResultsOf(d) : k <= n

\* C11: when two session files carry the same date, per-session aggregation
\* keeps only the speaker mapping of the result that comes later in the
\* driver's list: global_stats[date] is that mapping, every row of the date
\* has the later file's count (missing when the speaker is not in the later
\* file, also when it is in the earlier one), and the speakers of the earlier
\* file still belong to the speaker set.
C11_LaterFileReplaces ==
    (Aggregated /\ mode = "per-session") =>
        /\ DOMAIN global_stats = AllDates
        /\ \A d \in AllDates : global_stats[d] = data[LastResultOf(d)].stats
        /\ speakers = AllSpeakers
        /\ \A k \in DOMAIN result :
               LET later == data[LastResultOf(result[k].Date)].stats
                   s == result[k].Speaker
               IN  result[k].UsageCount = IF s \in DOMAIN later THEN Some(later[s]) ELSE None

\* C11 witness: two files of D1, S1 with a count of 1 only in the earlier one,
\* S2 only in the later one: S1 has a row, its count is missing, and no row of
\* the table holds the count 1.
C11_Witness ==
    /\ pc = "done" /\ mode = "per-session"
    /\ Len(data) = 2 /\ data[1].date = D1 /\ data[2].date = D1
    /\ DOMAIN data[1].stats = {"S1"} /\ data[1].stats["S1"] = 1
    /\ DOMAIN data[2].stats = {"S2"}
    /\ \E k \in DOMAIN output[1] :
           /\ output[1][k].Speaker = "S1" /\ output[1][k].Date = D1
           /\ output[1][k].UsageCount = None
    /\ \A k \in DOMAIN output[1] : output[1][k].UsageCount # Some(1)

\* The occurrences of the form f in the utterances of the speaker, each
\* utterance counted on its own.
OccurrencesOf(file, s, f) ==
    SumFn([i \in TurnsOf(file, s) |-> StrCount(UttText(file.utts[i]), f)])

\* C12: in per-form mode a form listed m times is counted m times into the
\* one key (speaker, date, form): each reported Count is m times the sum over
\* the speaker's utterances of the occurrences of the form, and no key has
\* more than one entry.
C12_DuplicateFormsMultiply ==
    pc = "collected" =>
        /\ \A n \in DOMAIN u_formstats.stats :
               LET key == u_formstats.stats[n].key
               IN  /\ key[2] = FileDate
                   /\ u_formstats.stats[n].value =
                          Cardinality(PlacesOf(u_forms, key[3])) * OccurrencesOf(u_file, key[1], key[3])
        /\ \A m, n \in DOMAIN u_formstats.stats :
               u_formstats.stats[m].key = u_formstats.stats[n].key => m = n

\* C12 witness: "a" is listed twice and S1 says "a" in two utterances: the one
\* entry of (S1, date, "a") holds 2 * 2 = 4.
C12_Witness ==
    /\ pc = "collected"
    /\ u_forms = <<s_a, s_a>>
    /\ u_file.utts = <<Utt("S1", s_a, << >>), Utt("S1", s_a, << >>)>>
    /\ u_formstats.stats = <<[key |-> <<"S1", FileDate, s_a>>, value |-> 4]>>

====
